---- MODULE Spec2Model ----
(***************************************************************************)
(* The three bulk-provisioning scripts of the repository                   *)
(*   scripts/process_mannequins.py  (script = "mannequins")                *)
(*   scripts/add_to_orgs.py         (script = "orgs")                      *)
(*   scripts/add_to_repos.py        (script = "repos")                     *)
(* as one state machine: the batch loop over the CSV rows, validate_input, *)
(* get_user_id, the grant call and the make_request retry loop.            *)
(* Strings that the code inspects character by character (identifier,      *)
(* target) are sequences of one-character strings; role labels are atomic  *)
(* strings with lower() given by the table Lower.                          *)
(***************************************************************************)
EXTENDS Integers, Sequences, FiniteSets, TLC

VARIABLES script, fileExists, header, remaining, failed, pc, row,
          call, uid, arg, log, calls, grant, github_role

\* script      which of the three scripts runs
\* fileExists  whether CSV_FILE names an existing file
\* header      the first line of the file: the expected header, another one,
\*             or none (empty file)
\* remaining   data rows not yet read by the loop
\* failed      finished rows whose log lines include an error line
\* pc          position of the script
\* row         the row the loop is working on
\* call        the frame of the current (or last) make_request call
\* uid, arg    value returned by get_user_id (<<>> is None) and its argument
\* log         error and info lines logged for the current row
\* calls       make_request calls made for the current row, by purpose
\* grant       the grant request built for the current row
\* github_role the value determine_role returned for the current row
\*             ("" before it is called)
vars == <<script, fileExists, header, remaining, failed, pc, row,
          call, uid, arg, log, calls, grant, github_role>>

\* ---------------------------------------------------------------- bounds
MaxRows == 2
ResetAhead == 2

\* ------------------------------------------------------ program constants
max_retries == 3

Scripts == {"mannequins", "orgs", "repos"}

\* ------------------------------------------------------------ input sets
\* (the email-like identifier has two '@', so that the part before the
\* first '@' differs from the part before the last)
Identifiers == { <<>>, <<"u">>, <<"u", "@", "x", "@", "y">> }
Targets == { <<>>, <<"o">>, <<"o", "/", "r">>, <<"o", "/", "r", "/", "x">> }
Roles == {"", "Admin", "Member", "Owner", "Read", "Write", "Contributor",
          "admin", "contributor", "push", "Bogus"}
GITHUB_REPO == <<"o", "/", "r">>

\* ------------------------------------------------------- string helpers
Contains(s, c) == \E i \in 1..Len(s) : s[i] = c

Count(s, c) == Cardinality({i \in 1..Len(s) : s[i] = c})

\* mutant: s.rsplit(c, 1)[0], the part of s before the last c
SplitFirst_BeforeLast(s, c) ==
    IF \E i \in 1..Len(s) : s[i] = c
    THEN SubSeq(s, 1, (CHOOSE i \in 1..Len(s) :
                          s[i] = c /\ \A j \in (i + 1)..Len(s) : s[j] # c) - 1)
    ELSE s

\* s.split(c)[0]: the part of s before the first c (all of s without c)
SplitFirst(s, c) ==
    IF Contains(s, c)
    THEN SubSeq(s, 1, (CHOOSE i \in 1..Len(s) :
                          s[i] = c /\ \A j \in 1..(i - 1) : s[j] # c) - 1)
    ELSE s

\* len(s.split(c))
SplitParts(s, c) == Count(s, c) + 1

\* str.lower() on the role labels
Lower(r) ==
    CASE r = "Admin" -> "admin"
      [] r = "Member" -> "member"
      [] r = "Owner" -> "owner"
      [] r = "Read" -> "read"
      [] r = "Write" -> "write"
      [] r = "Contributor" -> "contributor"
      [] r = "Bogus" -> "bogus"
      [] OTHER -> r

\* ------------------------------------------------------------ role tables
get_github_roles ==
    [r \in {"Admin", "Member", "Owner", "Read", "Write", "Contributor"} |->
        CASE r = "Admin" -> "admin"
          [] r = "Member" -> "member"
          [] r = "Owner" -> "owner"
          [] r = "Read" -> "pull"
          [] r = "Write" -> "push"
          [] r = "Contributor" -> "pull"]

\* mutant: roles.get(mannequin_role, 'member')
determine_role_DefaultMember(mannequin_role) ==
    IF mannequin_role \in DOMAIN get_github_roles
    THEN get_github_roles[mannequin_role]
    ELSE "member"

determine_role(mannequin_role) ==
    IF mannequin_role \in DOMAIN get_github_roles
    THEN get_github_roles[mannequin_role]
    ELSE "pull"

\* mutant: the membership test of the role is left out
validate_input_mannequins_NoRoleCheck(identifier, target, role) ==
    ~(identifier = <<>> \/ target = <<>> \/ role = "")

\* validate_input of each script: TRUE when no ValueError is raised
validate_input_mannequins(identifier, target, role) ==
    /\ ~(identifier = <<>> \/ target = <<>> \/ role = "")
    /\ role \in DOMAIN get_github_roles

validate_input_orgs(username, org, role) ==
    /\ ~(username = <<>> \/ org = <<>> \/ role = "")
    /\ Lower(role) \in {"admin", "member", "owner"}

validate_input_repos(username, repo, permission) ==
    /\ ~(username = <<>> \/ repo = <<>> \/ permission = "")
    /\ Lower(permission) \in {"pull", "push", "admin", "contributor"}

validate_input(s, identifier, target, role) ==
    CASE s = "mannequins" -> validate_input_mannequins(identifier, target, role)
      [] s = "orgs" -> validate_input_orgs(identifier, target, role)
      [] s = "repos" -> validate_input_repos(identifier, target, role)

\* ------------------------------------------------------ HTTP responses
\* status 0 stands for a network-level failure (requests raises before any
\* response exists); rl says that the body text contains 'rate limit';
\* reset is the X-RateLimit-Reset header (0 when absent); items carries the
\* ids of the JSON body (search: items[*].id, user lookup: id).
NoResp == [status |-> 0, rl |-> FALSE, reset |-> 0, items |-> <<>>]

OkResponses(kind) ==
    CASE kind = "search" ->
            {[status |-> 200, rl |-> FALSE, reset |-> 0, items |-> it] :
                it \in {<<>>, <<2, 1>>}}
      [] kind = "lookup" ->
            {[status |-> 200, rl |-> FALSE, reset |-> 0, items |-> <<3>>]}
      [] OTHER ->
            {[status |-> 201, rl |-> FALSE, reset |-> 0, items |-> <<>>]}

ErrResponses(t) ==
    {[status |-> 403, rl |-> TRUE, reset |-> rs, items |-> <<>>] :
        rs \in {0, t + ResetAhead}}
    \cup {[status |-> 404, rl |-> FALSE, reset |-> 0, items |-> <<>>]}
    \cup {NoResp}

Responses(kind, t) == OkResponses(kind) \cup ErrResponses(t)

\* ---------------------------------------------------------- make_request
NetworkError(r) == r.status = 0

IsRateLimit(r) == r.status = 403 /\ r.rl

\* response.raise_for_status() raises HTTPError, a RequestException
RaisesForStatus(r) == r.status >= 400 /\ r.status < 600

Max(a, b) == IF a >= b THEN a ELSE b

\* mutant: the extra second is forgotten
RateLimitSleep_NoMargin(reset, t) == Max(reset - t, 0)

\* sleep_time = max(reset_time - time.time(), 0) + 1
RateLimitSleep(reset, t) == Max(reset - t, 0) + 1

\* mutant: the exponent is taken from the 1-based attempt number
Backoff_OneBased(attempt) == 2 ^ (attempt + 1)

\* time.sleep(2 ** attempt)
Backoff(attempt) == 2 ^ attempt

\* mutant: the last attempt is compared with max_retries itself
OnRequestException_OffByOne(attempt) ==
    IF attempt = max_retries THEN "raise" ELSE "backoff"

\* the except clause: re-raise on the last attempt, otherwise back off
OnRequestException(attempt) ==
    IF attempt = max_retries - 1 THEN "raise" ELSE "backoff"

\* mutant: raise_for_status() outside the try block, its error not retried
Outcome_HttpErrorFatal(attempt, r) ==
    IF NetworkError(r) THEN OnRequestException(attempt)
    ELSE IF IsRateLimit(r) THEN "ratelimit"
    ELSE IF RaisesForStatus(r) THEN "raise"
    ELSE "return"

\* what one iteration of the for loop does with the server's answer
Outcome(attempt, r) ==
    IF NetworkError(r) THEN OnRequestException(attempt)
    ELSE IF IsRateLimit(r) THEN "ratelimit"
    ELSE IF RaisesForStatus(r) THEN OnRequestException(attempt)
    ELSE "return"

\* how the call ends after an iteration with outcome o at index attempt:
\* "pending" (another iteration), "response", "raise", or "None" when
\* range(max_retries) is exhausted and the function falls off its end
\* mutant: a rate-limit response never ends the call
ResultAfter_RateLimitUnbounded(attempt, o) ==
    CASE o = "return" -> "response"
      [] o = "raise" -> "raise"
      [] o = "ratelimit" -> "pending"
      [] OTHER -> IF attempt + 1 < max_retries THEN "pending" ELSE "None"

ResultAfter(attempt, o) ==
    CASE o = "return" -> "response"
      [] o = "raise" -> "raise"
      [] OTHER -> IF attempt + 1 < max_retries THEN "pending" ELSE "None"

SleepAfter(attempt, o, r, t) ==
    CASE o = "ratelimit" -> RateLimitSleep(r.reset, t)
      [] o = "backoff" -> Backoff(attempt)
      [] OTHER -> 0

\* the error line of make_request before it re-raises (add_to_repos.py has
\* none); log holds the error and info lines of the current record, the
\* warning lines are not kept
RequestLog(s, o) ==
    IF o = "raise" /\ s # "repos" THEN {"err_request_failed"} ELSE {}

\* the frame of a make_request call: the loop index, the clock now (the
\* seconds of time.time() counted from the entry of the call; the code uses
\* time.time() only in the difference with the reset header, which is given
\* on the same origin), the attempts made so far (hist: the answer, when it
\* was sent and the sleep that followed), and how the call ended
NoCall == [kind |-> "none", method |-> "get", attempt |-> 0, now |-> 0,
           hist |-> <<>>, result |-> "pending", resp |-> NoResp]

StartCall(kind, method) ==
    [kind |-> kind, method |-> method, attempt |-> 0, now |-> 0,
     hist |-> <<>>, result |-> "pending", resp |-> NoResp]

ReturnTo(kind) == IF kind = "grant" THEN "grant_ret" ELSE "get_user_id_ret"

\* one iteration of `for attempt in range(max_retries)`: send, classify,
\* sleep, then continue, return or raise
MakeRequestAttempt ==
    /\ pc = "request"
    /\ \E r \in Responses(call.kind, call.now) :
         LET o == Outcome(call.attempt, r)
             d == SleepAfter(call.attempt, o, r, call.now)
             res == ResultAfter(call.attempt, o)
         IN /\ call' = [call EXCEPT
                          !.hist = Append(@, [status |-> r.status, rl |-> r.rl,
                                              reset |-> r.reset, at |-> call.now,
                                              slept |-> d]),
                          !.attempt = IF res = "pending" THEN @ + 1 ELSE @,
                          !.now = @ + d,
                          !.result = res,
                          !.resp = IF res = "response" THEN r ELSE NoResp]
            /\ log' = log \cup RequestLog(script, o)
            /\ pc' = IF res = "pending" THEN "request" ELSE ReturnTo(call.kind)
    /\ UNCHANGED <<script, fileExists, header, remaining, failed, row,
                   uid, arg, calls, grant, github_role>>

\* --------------------------------------------------------------- batch
NoRow == [identifier |-> <<>>, role |-> "", target |-> <<>>, ncols |-> 0]
NoGrant == [method |-> "none", endpoint |-> "none", body |-> "", invitee |-> <<>>]
NoCalls == [search |-> 0, lookup |-> 0, grant |-> 0]

\* the rows a csv reader can hand to the loop of script s; for
\* process_mannequins.py the DictReader keys the four columns by the header,
\* for add_to_repos.py the repository is GITHUB_REPO and not a column
Rows(s) ==
    CASE s = "mannequins" ->
            [identifier : Identifiers, role : Roles, target : Targets, ncols : {4}]
      [] s = "orgs" ->
            [identifier : Identifiers, role : Roles, target : Targets, ncols : {4, 5}]
      [] s = "repos" ->
            [identifier : Identifiers, role : Roles, target : {GITHUB_REPO},
             ncols : {4, 5}]

\* the filter in front of the try block: len(row) == 5 and '/' not in target
\* (add_to_orgs.py), len(row) == 4 (add_to_repos.py), none (DictReader loop)
Selected(s, r) ==
    CASE s = "mannequins" -> TRUE
      [] s = "orgs" -> r.ncols = 5 /\ ~Contains(r.target, "/")
      [] s = "repos" -> r.ncols = 4

\* the lines logging.error writes for a record
ErrorLines == {"err_request_failed", "err_lookup", "err_nouser", "err_failed",
               "err_invalid", "err_unexpected"}

\* mutant: the second clause catches requests.RequestException only
LoopCatch_RequestExceptionOnly(exc) ==
    CASE exc = "ValueError" -> [log |-> {"err_invalid"}, pc |-> "loop"]
      [] exc = "RequestException" -> [log |-> {"err_unexpected"}, pc |-> "loop"]
      [] OTHER -> [log |-> {}, pc |-> "crash"]

\* the except clauses of the batch loop: ValueError, then Exception
LoopCatch(exc) ==
    IF exc = "ValueError"
    THEN [log |-> {"err_invalid"}, pc |-> "loop"]
    ELSE [log |-> {"err_unexpected"}, pc |-> "loop"]

Init ==
    /\ script \in Scripts
    /\ fileExists \in BOOLEAN
    /\ header \in {"expected", "other", "empty"}
    /\ remaining \in 0..MaxRows
    /\ (header = "empty" \/ ~fileExists) => remaining = 0
    /\ failed = 0
    /\ pc = "main"
    /\ row = NoRow
    /\ call = NoCall
    /\ uid = <<>>
    /\ arg = <<>>
    /\ log = {}
    /\ calls = NoCalls
    /\ grant = NoGrant
    /\ github_role = ""

\* mutant: validate_csv checks only that the file exists
MainStep_NoHeaderCheck(s, exists, h) ==
    CASE s = "mannequins" -> IF ~exists THEN "exit1" ELSE "loop"
      [] s = "orgs" ->
            IF ~exists \/ h = "empty" THEN "crash" ELSE "loop"
      [] s = "repos" ->
            IF ~exists THEN "exit1" ELSE IF h = "empty" THEN "crash" ELSE "loop"

\* what happens between the start of main() and the first loop iteration
MainStep(s, exists, h) ==
    CASE s = "mannequins" ->
            IF ~exists \/ h # "expected" THEN "exit1" ELSE "loop"
      [] s = "orgs" ->
            IF ~exists \/ h = "empty" THEN "crash" ELSE "loop"
      [] s = "repos" ->
            IF ~exists THEN "exit1" ELSE IF h = "empty" THEN "crash" ELSE "loop"

Main ==
    /\ pc = "main"
    /\ pc' = MainStep(script, fileExists, header)
    /\ UNCHANGED <<script, fileExists, header, remaining, failed, row,
                   call, uid, arg, log, calls, grant, github_role>>

\* `for row in csv_reader`: the next row, or the end of the input. failed
\* counts the finished rows whose log lines include an error line
ReadRow ==
    /\ pc = "loop"
    /\ remaining > 0
    /\ \E r \in Rows(script) :
         /\ row' = r
         /\ pc' = IF Selected(script, r) THEN "validate" ELSE "loop"
    /\ remaining' = remaining - 1
    /\ failed' = failed + (IF log \cap ErrorLines # {} THEN 1 ELSE 0)
    /\ call' = NoCall
    /\ uid' = <<>>
    /\ arg' = <<>>
    /\ log' = {}
    /\ calls' = NoCalls
    /\ grant' = NoGrant
    /\ github_role' = ""
    /\ UNCHANGED <<script, fileExists, header>>

EndOfInput ==
    /\ pc = "loop"
    /\ remaining = 0
    /\ pc' = "done"
    /\ failed' = failed + (IF log \cap ErrorLines # {} THEN 1 ELSE 0)
    /\ UNCHANGED <<script, fileExists, header, remaining, row,
                   call, uid, arg, log, calls, grant, github_role>>

\* the body of the repository-collaborator PUT of add_to_repos.py
RepoPermission(permission) ==
    IF Lower(permission) = "contributor" THEN Lower("push") ELSE Lower(permission)

\* the first statements of the try block: validate_input, then the call of
\* add_user_to_target / add_user_to_org / add_user_to_repo up to its first
\* HTTP request
ValidateRow ==
    /\ pc = "validate"
    /\ IF ~validate_input(script, row.identifier, row.target, row.role)
       THEN /\ log' = log \cup LoopCatch("ValueError").log
            /\ pc' = LoopCatch("ValueError").pc
            /\ UNCHANGED <<arg, call, calls, grant, github_role>>
       ELSE IF script = "repos"
       THEN /\ grant' = [method |-> "put", endpoint |-> "repo",
                         body |-> RepoPermission(row.role), invitee |-> <<>>]
            /\ call' = StartCall("grant", "put")
            /\ calls' = [calls EXCEPT !.grant = @ + 1]
            /\ pc' = "request"
            /\ UNCHANGED <<arg, log, github_role>>
       ELSE /\ arg' = row.identifier
            /\ github_role' = IF script = "mannequins"
                               THEN determine_role(row.role) ELSE github_role
            /\ pc' = "get_user_id"
            /\ UNCHANGED <<call, calls, grant, log>>
    /\ UNCHANGED <<script, fileExists, header, remaining, failed, row,
                   uid>>

\* ---------------------------------------------------------- get_user_id
\* which lookup get_user_id(a) starts: process_mannequins.py searches when
\* a contains '@'; add_to_orgs.py always asks /users/{username}
LookupKind(s, a) ==
    IF s = "mannequins" /\ Contains(a, "@") THEN "search" ELSE "lookup"

GetUserId ==
    /\ pc = "get_user_id"
    /\ call' = StartCall(LookupKind(script, arg), "get")
    /\ calls' = [calls EXCEPT ![LookupKind(script, arg)] = @ + 1]
    /\ pc' = "request"
    /\ UNCHANGED <<script, fileExists, header, remaining, failed, row,
                   uid, arg, log, grant, github_role>>

\* mutant: the last search hit is taken instead of the first
FirstId_Last(items) == <<items[Len(items)]>>

\* users[0]['id'] of a search, response.json()['id'] of a user lookup
FirstId(items) == <<items[1]>>

\* what get_user_id does with the outcome of its make_request call:
\*   next  "return" (uid is the value returned, <<>> for None),
\*         "recurse" (get_user_id on the local part), or
\*         "throw" (exc leaves get_user_id)
GetUserIdOutcome(s, c) ==
    CASE c.result = "raise" ->
            IF s = "orgs"
            THEN [next |-> "throw", exc |-> "RequestException", uid |-> <<>>,
                  log |-> {"err_lookup"}]
            ELSE [next |-> "return", exc |-> "none", uid |-> <<>>,
                  log |-> {"err_lookup"}]
      [] c.result = "None" ->
            \* None.json(): AttributeError, not a RequestException
            [next |-> "throw", exc |-> "AttributeError", uid |-> <<>>, log |-> {}]
      [] OTHER ->
            IF c.kind = "search" /\ c.resp.items = <<>>
            THEN [next |-> "recurse", exc |-> "none", uid |-> <<>>,
                  log |-> {"warn_fallback"}]
            ELSE [next |-> "return", exc |-> "none", uid |-> FirstId(c.resp.items),
                  log |-> {}]

GetUserIdReturn ==
    /\ pc = "get_user_id_ret"
    /\ LET o == GetUserIdOutcome(script, call)
       IN /\ uid' = o.uid
          /\ arg' = IF o.next = "recurse" THEN SplitFirst(arg, "@") ELSE arg
          /\ log' = log \cup o.log
                        \cup (IF o.next = "throw" THEN LoopCatch(o.exc).log ELSE {})
          /\ pc' = CASE o.next = "recurse" -> "get_user_id"
                     [] o.next = "throw" -> LoopCatch(o.exc).pc
                     [] OTHER -> "resolved"
    /\ UNCHANGED <<script, fileExists, header, remaining, failed, row,
                   call, calls, grant, github_role>>

\* ------------------------------------------------------------ grant call
\* "role": "admin" if role.lower() == 'admin' else 'member'
\* mutant: the mapped permission is sent as the organization role unchanged
OrgRole_PassThrough(role) == Lower(role)

OrgRole(role) == IF Lower(role) = "admin" THEN "admin" ELSE "member"

\* the request add_user_to_target / add_user_to_org builds once the user id
\* is known; endpoint "error" stands for the ValueError of
\* `owner, repo_name = target.split('/')` when there are not two parts
\* (role is the third argument of the call: the row's role in add_to_orgs.py,
\* github_role in process_mannequins.py)
BuildGrant(s, target, role, id) ==
    IF s = "orgs"
    THEN [method |-> "post", endpoint |-> "org", body |-> Lower(role),
          invitee |-> id]
    ELSE IF Contains(target, "/")
    THEN IF SplitParts(target, "/") = 2
         THEN [method |-> "put", endpoint |-> "repo",
               body |-> Lower(role), invitee |-> <<>>]
         ELSE [method |-> "none", endpoint |-> "error", body |-> "",
               invitee |-> <<>>]
    ELSE [method |-> "post", endpoint |-> "org",
          body |-> OrgRole(role), invitee |-> id]

\* mutant: add_user_to_target without `if user_id is None: ... return`
AddUser_NoNoneCheck ==
    /\ pc = "resolved"
    /\ LET g == BuildGrant(script, row.target,
                          IF script = "mannequins" THEN github_role
                          ELSE row.role, uid)
       IN IF g.endpoint = "error"
          THEN /\ log' = log \cup LoopCatch("ValueError").log
               /\ pc' = LoopCatch("ValueError").pc
               /\ UNCHANGED <<call, calls, grant>>
          ELSE /\ grant' = g
               /\ call' = StartCall("grant", g.method)
               /\ calls' = [calls EXCEPT !.grant = @ + 1]
               /\ pc' = "request"
               /\ UNCHANGED log
    /\ UNCHANGED <<script, fileExists, header, remaining, failed, row,
                   uid, arg, github_role>>

\* add_user_to_target after get_user_id returned (lines 275-293), and
\* add_user_to_org once its data dict is built
AddUser ==
    /\ pc = "resolved"
    /\ IF script = "mannequins" /\ uid = <<>>
       THEN /\ log' = log \cup {"err_nouser"}
            /\ pc' = "loop"
            /\ UNCHANGED <<call, calls, grant>>
       ELSE LET g == BuildGrant(script, row.target,
                               IF script = "mannequins" THEN github_role
                               ELSE row.role, uid)
            IN IF g.endpoint = "error"
               THEN /\ log' = log \cup LoopCatch("ValueError").log
                    /\ pc' = LoopCatch("ValueError").pc
                    /\ UNCHANGED <<call, calls, grant>>
               ELSE /\ grant' = g
                    /\ call' = StartCall("grant", g.method)
                    /\ calls' = [calls EXCEPT !.grant = @ + 1]
                    /\ pc' = "request"
                    /\ UNCHANGED log
    /\ UNCHANGED <<script, fileExists, header, remaining, failed, row,
                   uid, arg, github_role>>

\* mutant: the info line is written whether or not the call raised
GrantOutcome_InfoAlways(s, c) ==
    IF c.result = "raise"
    THEN IF s = "orgs"
         THEN [log |-> {"info_success", "err_failed"}
                          \cup LoopCatch("RequestException").log,
               pc |-> LoopCatch("RequestException").pc]
         ELSE [log |-> {"info_success", "err_failed"}, pc |-> "loop"]
    ELSE [log |-> {"info_success"}, pc |-> "loop"]

\* the try/except around the grant's make_request: the info line when the
\* call returned (whatever it returned), the error line on RequestException;
\* add_user_to_org re-raises into the batch loop
GrantOutcome(s, c) ==
    IF c.result = "raise"
    THEN IF s = "orgs"
         THEN [log |-> {"err_failed"} \cup LoopCatch("RequestException").log,
               pc |-> LoopCatch("RequestException").pc]
         ELSE [log |-> {"err_failed"}, pc |-> "loop"]
    ELSE [log |-> {"info_success"}, pc |-> "loop"]

GrantReturn ==
    /\ pc = "grant_ret"
    /\ log' = log \cup GrantOutcome(script, call).log
    /\ pc' = GrantOutcome(script, call).pc
    /\ UNCHANGED <<script, fileExists, header, remaining, failed, row,
                   call, uid, arg, calls, grant, github_role>>

Next ==
    \/ Main
    \/ ReadRow
    \/ EndOfInput
    \/ ValidateRow
    \/ GetUserId
    \/ MakeRequestAttempt
    \/ GetUserIdReturn
    \/ AddUser
    \/ GrantReturn

Spec == Init /\ [][Next]_vars

\* the interpreter always takes the next step of the running script
FairSpec == Spec /\ WF_vars(Next)

\* ================================================================ claims
\* the answer recorded in a history entry, read as the claims word it
RateLimited(e) == e.status = 403 /\ e.rl
NetworkFailed(e) == e.status = 0
ErrorStatus(e) == e.status >= 400 /\ e.status < 600
Succeeded2xx(e) == e.status >= 200 /\ e.status < 300

AllOf(h, P(_)) == \A i \in 1..Len(h) : P(h[i])

\* the current record has run to its end
RecordEnded == pc \in {"loop", "done"} /\ row # NoRow

GrantCallEnded == RecordEnded /\ call.kind = "grant"

\* C1: a rate-limit response does not consume one of the max_retries
\* attempts: the loop index counts only the answers that were not rate-limit
\* responses, and a call never ends on a rate-limit response (it sleeps and
\* sends the same request again until another kind of answer arrives).
C1_RateLimitKeepsAttempt ==
    /\ call.result = "pending" =>
          call.attempt = Cardinality({i \in 1..Len(call.hist) :
                                         ~RateLimited(call.hist[i])})
    /\ (call.result # "pending" /\ Len(call.hist) > 0) =>
          ~RateLimited(call.hist[Len(call.hist)])

\* C2: a make_request call ends either by returning a response whose status
\* is not an error status or by raising; it never returns None.
C2_ResponseOrRaise ==
    /\ call.result \in {"pending", "response", "raise"}
    /\ call.result = "response" => ~ErrorStatus(call.resp)

\* C3: a record whose grant request was answered by a rate-limit response on
\* every one of the max_retries attempts ends Failed with an error line and
\* is never reported as added/invited.
C3_PersistentRateLimitFails ==
    (/\ GrantCallEnded
     /\ Len(call.hist) = max_retries
     /\ AllOf(call.hist, RateLimited))
    => /\ "info_success" \notin log
       /\ log \cap ErrorLines # {}

\* C4: when the grant request is answered by a rate-limit 403 once and then
\* by success, the request is sent exactly twice: after the first answer the
\* call is still running, the second request goes out only at a time past
\* the reported reset time, the call returns that second response, and the
\* record ends with the success line and no error line.
C4_OneRateLimitThenSuccess ==
    (call.kind = "grant" /\ Len(call.hist) >= 1 /\ RateLimited(call.hist[1]))
    => /\ Len(call.hist) = 1 => (call.result = "pending" /\ pc = "request")
       /\ Len(call.hist) >= 2 => call.hist[2].at > call.hist[1].reset
       /\ (Len(call.hist) >= 2 /\ Succeeded2xx(call.hist[2])) =>
             /\ Len(call.hist) = 2
             /\ call.result = "response"
             /\ call.resp.status = call.hist[2].status
             /\ pc \in {"grant_ret", "loop", "done"}
             /\ RecordEnded => ("info_success" \in log /\ log \cap ErrorLines = {})

C4_Witness ==
    /\ GrantCallEnded
    /\ script = "mannequins"
    /\ Len(call.hist) = 2
    /\ RateLimited(call.hist[1])
    /\ call.hist[1].reset > 0
    /\ Succeeded2xx(call.hist[2])
    /\ "info_success" \in log

\* C5: when every attempt fails with a network-level error, the request is
\* sent exactly max_retries times and then the error is raised: the call is
\* still running after fewer failures and ends by raising at the
\* max_retries-th, never later.
C5_NetworkErrorExhaustsRetries ==
    (call.kind # "none" /\ AllOf(call.hist, NetworkFailed))
    => /\ Len(call.hist) <= max_retries
       /\ Len(call.hist) < max_retries => (call.result = "pending" /\ pc = "request")
       /\ Len(call.hist) = max_retries => call.result = "raise"

C5_Witness ==
    /\ call.kind = "grant"
    /\ Len(call.hist) = max_retries
    /\ AllOf(call.hist, NetworkFailed)
    /\ call.result = "raise"

\* C6 as stated: when every attempt fails with a network-level error, each
\* failed attempt k = 0 .. max_retries-1 is followed by a sleep of 2^k
\* seconds (1s, 2s, 4s).
C6_BackoffAfterEveryAttempt ==
    (call.kind # "none" /\ AllOf(call.hist, NetworkFailed))
    => \A i \in 1..Len(call.hist) : call.hist[i].slept = 2 ^ (i - 1)

\* C6 amended: when every attempt fails with a network-level error, each
\* failed attempt k = 0 .. max_retries-2 is followed by a sleep of 2^k
\* seconds and the last one (k = max_retries-1) by no sleep: the error is
\* raised at once (1s, 2s with the default max_retries = 3).
C6_BackoffBetweenAttempts ==
    (call.kind # "none" /\ AllOf(call.hist, NetworkFailed))
    => \A i \in 1..Len(call.hist) :
          call.hist[i].slept = IF i < max_retries THEN 2 ^ (i - 1) ELSE 0

C6_Witness ==
    /\ call.kind # "none"
    /\ Len(call.hist) = max_retries
    /\ AllOf(call.hist, NetworkFailed)
    /\ call.hist[1].slept = 1
    /\ call.hist[2].slept = 2
    /\ call.hist[max_retries].slept = 0

\* C7 as stated: a 4xx/5xx answer that is not a rate-limit response is
\* raised to the caller at once: no sleep follows it and no request is sent
\* after it.
C7_HttpErrorNotRetried ==
    \A i \in 1..Len(call.hist) :
       (ErrorStatus(call.hist[i]) /\ ~RateLimited(call.hist[i]))
       => /\ call.hist[i].slept = 0
          /\ i = Len(call.hist)
          /\ call.result = "raise"

\* C7 amended: a 4xx/5xx answer that is not a rate-limit response is handled
\* like a network failure: on an attempt before the last (index below
\* max_retries-1) make_request sleeps 2^attempt seconds and sends the
\* request again; only on the last attempt is the error raised to the
\* caller, without a sleep and without another request.
C7_HttpErrorRetriedUntilLast ==
    \A i \in 1..Len(call.hist) :
       (ErrorStatus(call.hist[i]) /\ ~RateLimited(call.hist[i]))
       => IF i = max_retries
          THEN /\ call.hist[i].slept = 0
               /\ i = Len(call.hist)
               /\ call.result = "raise"
          ELSE /\ call.hist[i].slept = 2 ^ (i - 1)
               /\ i = Len(call.hist) => (call.result = "pending" /\ pc = "request")

C7_Witness ==
    /\ call.kind = "grant"
    /\ Len(call.hist) = 2
    /\ call.hist[1].status = 404
    /\ call.hist[1].slept = 1
    /\ Succeeded2xx(call.hist[2])
    /\ call.result = "response"

\* C8: in process_mannequins.py a record that passed validation and whose
\* identity resolved gets the repository-collaborator PUT when its target
\* contains '/' (however many) and the organization-invitation POST
\* otherwise.
C8_RoutingBySlash ==
    (script = "mannequins" /\ RecordEnded /\ uid # <<>>)
    => IF Contains(row.target, "/")
       THEN grant.method = "put" /\ grant.endpoint = "repo" /\ calls.grant = 1
       ELSE grant.method = "post" /\ grant.endpoint = "org" /\ calls.grant = 1

\* C9: per-record isolation: whatever the current record does (validation
\* error, failed lookup, API error after the retries, any other exception),
\* once the loop has started it goes on to the remaining rows and reaches
\* the end of the input.
LoopPcs == {"loop", "validate", "get_user_id", "request", "get_user_id_ret",
            "resolved", "grant_ret"}

C9_PerRecordIsolation ==
    [](pc \in LoopPcs => <>(pc = "done" /\ remaining = 0))

\* an earlier record ended with an error line, and a later one was granted
C9_Witness ==
    /\ pc = "done"
    /\ failed >= 1
    /\ "info_success" \in log

\* the record has an empty required field or a role outside the set its
\* script recognizes
RecognizedRole(s, role) ==
    CASE s = "mannequins" ->
            role \in {"Admin", "Member", "Owner", "Read", "Write", "Contributor"}
      [] s = "orgs" -> Lower(role) \in {"admin", "member", "owner"}
      [] s = "repos" -> Lower(role) \in {"pull", "push", "admin", "contributor"}

\* the row has the number of columns the loop of its script unpacks
HasColumns(s, r) ==
    CASE s = "mannequins" -> TRUE
      [] s = "orgs" -> r.ncols = 5
      [] s = "repos" -> r.ncols = 4

InvalidRecord ==
    /\ row # NoRow
    /\ HasColumns(script, row)
    /\ \/ row.identifier = <<>>
       \/ row.target = <<>>
       \/ row.role = ""
       \/ ~RecognizedRole(script, row.role)

NoRequestForRecord == calls = NoCalls /\ call = NoCall /\ grant = NoGrant

\* C10 as stated: a record with an empty required field or an unrecognized
\* role is rejected by validate_input: no HTTP request is sent for it and it
\* is logged as invalid input.
C10_InvalidRejectedAndLogged ==
    InvalidRecord
    => /\ NoRequestForRecord
       /\ RecordEnded => log = {"err_invalid"}

\* what does hold of such a record: it never causes an HTTP request, and
\* it is logged as invalid input unless the guard in front of the try block
\* of add_to_orgs.py passes it over (target with '/'), without any log line
\* (the rows C19 is about).
C10_InvalidRejected ==
    InvalidRecord
    => /\ NoRequestForRecord
       /\ RecordEnded =>
             log = (IF Selected(script, row) THEN {"err_invalid"} ELSE {})

C10_Witness ==
    /\ script = "mannequins"
    /\ RecordEnded
    /\ row.identifier # <<>>
    /\ row.target # <<>>
    /\ row.role = "Bogus"
    /\ log = {"err_invalid"}
    /\ NoRequestForRecord

\* C11: in process_mannequins.py, when the first line of the input file is
\* not the expected four-column header (another header, or none because the
\* file is empty), main fails fast: no row is taken, no HTTP request is
\* made, and the only position reached after the start is the exit with
\* status 1.
C11_BadHeaderFailsFast ==
    (script = "mannequins" /\ fileExists /\ header # "expected")
    => /\ pc \in {"main", "exit1"}
       /\ row = NoRow
       /\ NoRequestForRecord
       /\ log = {}

C11_Witness ==
    /\ script = "mannequins"
    /\ fileExists
    /\ header = "other"
    /\ remaining = MaxRows
    /\ pc = "exit1"

\* C12: the batch loops of add_to_orgs.py and add_to_repos.py reject an
\* input file whose header row is not a supported one: with such a header no
\* data row is processed (none gets a log line) and no HTTP request is made.
C12_WrongHeaderRejected ==
    (script \in {"orgs", "repos"} /\ fileExists /\ header = "other")
    => /\ log = {}
       /\ NoRequestForRecord

\* the record has the columns of its script, no empty required field and
\* a role its script recognizes
ValidRecord ==
    /\ row # NoRow
    /\ HasColumns(script, row)
    /\ row.identifier # <<>>
    /\ row.target # <<>>
    /\ row.role # ""
    /\ RecognizedRole(script, row.role)

\* identity resolution of the current record has ended without a user id
ResolutionFailed ==
    /\ RecordEnded
    /\ call.kind \in {"search", "lookup"}
    /\ call.result \in {"raise", "None"}

\* C13: in process_mannequins.py and add_to_orgs.py a grant request is built
\* and sent only for a record that passed validation and after identity
\* resolution returned a user id; when resolution fails no grant request is
\* sent and the record ends Failed (an error line, no success line).
C13_GrantOnlyAfterResolution ==
    script \in {"mannequins", "orgs"}
    => /\ (calls.grant > 0 \/ grant # NoGrant \/ call.kind = "grant")
            => /\ ValidRecord
               /\ uid # <<>>
               /\ calls.search + calls.lookup >= 1
       /\ ResolutionFailed
            => /\ calls.grant = 0
               /\ grant = NoGrant
               /\ log \cap ErrorLines # {}
               /\ "info_success" \notin log

C13_Witness ==
    /\ script = "mannequins"
    /\ ResolutionFailed
    /\ call.kind = "lookup"
    /\ call.result = "raise"
    /\ "err_nouser" \in log
    /\ calls.grant = 0

\* the part of s before its first '@'
LocalPart(s) ==
    CHOOSE p \in {SubSeq(s, 1, k) : k \in 0..Len(s)} :
        /\ \A i \in 1..Len(p) : p[i] # "@"
        /\ Len(p) < Len(s) => s[Len(p) + 1] = "@"

\* get_user_id has dealt with the answer of its last make_request call
LookupHandled == call.result = "response" /\ pc # "get_user_id_ret"

\* C14: in process_mannequins.py, for an identifier containing '@': when the
\* user search returns no item, get_user_id goes on with a username lookup
\* of the part before the first '@' and, if that lookup succeeds, returns
\* exactly the id of that lookup; when the search returns one or more items
\* it returns the id of the first item and makes no lookup.
C14_EmailFallback ==
    (script = "mannequins" /\ row # NoRow /\ Contains(row.identifier, "@"))
    => /\ (call.kind = "search" /\ LookupHandled /\ call.resp.items # <<>>)
            => /\ uid = <<call.resp.items[1]>>
               /\ calls.lookup = 0
               /\ pc # "get_user_id"
       /\ (call.kind = "search" /\ LookupHandled /\ call.resp.items = <<>>)
            => /\ pc = "get_user_id"
               /\ arg = LocalPart(row.identifier)
       /\ call.kind = "lookup"
            => /\ calls.search = 1
               /\ arg = LocalPart(row.identifier)
               /\ LookupHandled => uid = <<call.resp.items[1]>>

C14_Witness ==
    /\ script = "mannequins"
    /\ row.identifier = <<"u", "@", "x", "@", "y">>
    /\ calls.search = 1
    /\ call.kind = "lookup"
    /\ arg = <<"u">>
    /\ LookupHandled
    /\ uid = <<3>>

\* ------------------------------------------- determine_role called alone
\* determine_role applied, twice, to the role of any record a file can hold,
\* with no validate_input in front of it
RoleInit ==
    /\ script = "mannequins"
    /\ fileExists = TRUE
    /\ header = "expected"
    /\ remaining = 0
    /\ failed = 0
    /\ pc = "determine_role"
    /\ row \in Rows("mannequins")
    /\ call = NoCall
    /\ uid = <<>>
    /\ arg = <<>>
    /\ log = {}
    /\ calls = NoCalls
    /\ grant = NoGrant
    /\ github_role = ""

DetermineRole ==
    /\ pc = "determine_role"
    /\ github_role' = determine_role(row.role)
    /\ pc' = "role_returned"
    /\ UNCHANGED <<script, fileExists, header, remaining, failed, row,
                   call, uid, arg, log, calls, grant>>

DetermineRoleAgain ==
    /\ pc = "role_returned"
    /\ github_role' = determine_role(row.role)
    /\ pc' = "role_returned_again"
    /\ UNCHANGED <<script, fileExists, header, remaining, failed, row,
                   call, uid, arg, log, calls, grant>>

RoleNext == DetermineRole \/ DetermineRoleAgain

RoleSpec == RoleInit /\ [][RoleNext]_vars

\* the value the role table gives a label, 'pull' for any other string
RoleTable(label) ==
    CASE label = "Admin" -> "admin"
      [] label = "Member" -> "member"
      [] label = "Owner" -> "owner"
      [] label = "Read" -> "pull"
      [] label = "Write" -> "push"
      [] label = "Contributor" -> "pull"
      [] OTHER -> "pull"

\* C15: determine_role is total and deterministic: for each of the labels
\* Admin, Member, Owner, Read, Write, Contributor it returns the value of
\* the table, for every other string (the empty one and lower-case spellings
\* included) it returns 'pull', and a second call gives the same value.
C15_DetermineRoleTotal ==
    pc \in {"role_returned", "role_returned_again"}
    => github_role = RoleTable(row.role)

C15_Witness ==
    /\ pc = "role_returned_again"
    /\ row.role = "admin"
    /\ github_role = "pull"

\* C16: identity resolution is bounded: get_user_id recurses at most once,
\* the argument of the fallback call holds no '@', so the resolution of one
\* record makes at most one search call and at most one username lookup call
\* of make_request (each of at most max_retries requests) and then ends.
C16_ResolutionBounded ==
    /\ calls.search <= 1
    /\ calls.lookup <= 1
    /\ calls.search + calls.lookup <= 2
    /\ (script = "mannequins" /\ calls.lookup = 1)
            => \A i \in 1..Len(arg) : arg[i] # "@"
    /\ (call.kind = "search" /\ call.result = "pending")
            => \E i \in 1..Len(arg) : arg[i] = "@"
    /\ call.kind \in {"search", "lookup"} => Len(call.hist) <= max_retries

C16_Witness ==
    /\ script = "mannequins"
    /\ row.identifier = <<"u", "@", "x", "@", "y">>
    /\ calls.search = 1
    /\ calls.lookup = 1
    /\ pc = "resolved"

\* C17: in process_mannequins.py the permission in the body of every
\* repository-collaborator PUT is one of pull, push, admin, whatever
\* recognized role label the record carries.
C17_RepoPermissionValid ==
    (script = "mannequins" /\ grant.endpoint = "repo" /\ calls.grant > 0)
    => grant.body \in {"pull", "push", "admin"}

\* C18: in process_mannequins.py the role in the body of every
\* organization-invitation POST is 'admin' or 'member': 'admin' exactly when
\* the mapped permission (github_role) is 'admin', 'member' for every other
\* mapped permission ('owner', 'push' and 'pull' included).
C18_OrgRoleBinary ==
    (script = "mannequins" /\ grant.endpoint = "org" /\ calls.grant > 0)
    => /\ grant.method = "post"
       /\ grant.body \in {"admin", "member"}
       /\ grant.body = "admin" <=> github_role = "admin"
       /\ github_role = RoleTable(row.role)

C18_Witness ==
    /\ script = "mannequins"
    /\ row.role = "Owner"
    /\ github_role = "owner"
    /\ grant.endpoint = "org"
    /\ grant.body = "member"
    /\ calls.grant = 1
    /\ call.kind = "grant"
    /\ Len(call.hist) > 0

\* C19: in add_to_orgs.py and add_to_repos.py every data row read from the
\* input ends with a logged outcome, the success info line or an error line;
\* no row ends without a grant attempt and without a log line.
C19_EveryRowLogged ==
    (script \in {"orgs", "repos"} /\ RecordEnded)
    => \/ "info_success" \in log
       \/ log \cap ErrorLines # {}

\* C20: every call of make_request ends after at most max_retries HTTP
\* requests, whatever mix of success, error status, network failure and
\* rate-limit answers the server gives: the loop index is the number of
\* requests sent, rate-limit answers included, and the call is over once
\* max_retries requests have been sent.
C20_RequestsBounded ==
    /\ Len(call.hist) <= max_retries
    /\ call.result = "pending" => call.attempt = Len(call.hist)
    /\ call.result = "pending" => Len(call.hist) < max_retries
    /\ call.result = "pending" =>
          \A i \in 1..Len(call.hist) :
             RateLimited(call.hist[i]) \/ NetworkFailed(call.hist[i])
                                       \/ ErrorStatus(call.hist[i])

C20_Witness ==
    /\ Len(call.hist) = max_retries
    /\ RateLimited(call.hist[1])
    /\ NetworkFailed(call.hist[2])
    /\ RateLimited(call.hist[3])
    /\ call.result = "None"

\* C21: in every script the outcomes of a record exclude each other: the
\* success info line and an error line are never both logged for one record,
\* and the success line is the last thing done for the record: it is written
\* after the one grant call has ended, and no request is in progress or
\* started for the record afterwards.
C21_OutcomesExclusive ==
    "info_success" \in log
    => /\ log \cap ErrorLines = {}
       /\ RecordEnded
       /\ call.kind = "grant"
       /\ call.result # "pending"
       /\ calls.grant = 1

C21_Witness ==
    /\ "info_success" \in log
    /\ pc = "loop"
    /\ remaining > 0
    /\ call.kind = "grant"
    /\ Succeeded2xx(call.hist[Len(call.hist)])
    /\ NetworkFailed(call.hist[1])

\* C22: in the batch loop of process_mannequins.py the default branch of
\* determine_role is never taken: validate_input runs first and raises for
\* every role that is not a key of the table, so determine_role is called
\* with recognized labels only, and a record with any other role ends as a
\* validation failure, without a mapped permission and without a request.
C22_DefaultUnreachable ==
    (script = "mannequins" /\ row # NoRow)
    => /\ github_role # ""
            => /\ RecognizedRole("mannequins", row.role)
               /\ github_role = RoleTable(row.role)
       /\ ~RecognizedRole("mannequins", row.role)
            => /\ github_role = ""
               /\ NoRequestForRecord
               /\ "info_success" \notin log
               /\ RecordEnded => log = {"err_invalid"}

C22_Witness ==
    /\ script = "mannequins"
    /\ row.identifier = <<"u">>
    /\ row.target = <<"o">>
    /\ row.role = "admin"
    /\ RecordEnded
    /\ github_role = ""
    /\ log = {"err_invalid"}

====
